---- MODULE Spec2Model ----
(***************************************************************************)
(* Model of src/app.py: a Streamlit script that shows and edits the rows   *)
(* of one Google Sheets worksheet ("Client Tracker").                      *)
(*                                                                         *)
(* One step of the model is one run of the script (Streamlit reruns the    *)
(* whole script on every widget interaction), or the passing of time.      *)
(* The state is the worksheet, the st.cache_data entry of load_data, the   *)
(* wall clock, and a record of what the last script run did.               *)
(***************************************************************************)
EXTENDS Integers, Sequences, FiniteSets, TLC

VARIABLES
    sheet,   \* the worksheet: sheet[1] is the header row, sheet[r] storage row r
    cache,   \* the st.cache_data entry of load_data()
    clock,   \* wall clock, in seconds
    req,     \* what the last script run did (inputs, backend calls, messages)
    steps    \* steps taken so far

vars == <<sheet, cache, clock, req, steps>>

----------------------------------------------------------------------------
(* Bounds of the model *)

MaxRows == 3        \* data rows the worksheet may hold
MaxSteps == 3       \* steps (script runs and clock ticks) in one behaviour

----------------------------------------------------------------------------
(* Program constants *)

TTL == 60               \* @st.cache_data(ttl=60)
SecondsPerDay == 86400  \* Timedelta.days counts whole days of 86400 s
HeaderOffset == 2       \* row_index + 2: header row plus 1-based rows
StampColumn == 15       \* update_cell(row_index + 2, 15, ...)
IdWidth == 4            \* f"REC_{...:04d}"

TickShort == TTL \div 2            \* a time step shorter than TTL
TickLong == SecondsPerDay \div 2   \* a time step of half a day

\* Column positions of the pd.Series built by both submit handlers.
ColRecordID == 1
ColClient == 2
ColEmail == 3
ColPhone == 4
ColTask == 5
ColPhase == 6
ColStatus == 7
ColPriority == 8
ColStart == 9
ColDue == 10
ColFollowUp == 11
ColDays == 12
ColOverdue == 13
ColNotes == 14
ColLastUpdated == 15
ColDrive == 16
ColPayment == 17
NumCols == 17

Header ==
    << "Record ID", "Client Name", "Main Contact Email", "Phone No.",
       "Task/Project", "Phase", "Status", "Priority", "Start Date", "Due Date",
       "Follow-Up Date", "Days to Due", "Overdue?", "Notes/Call Log",
       "Last Updated", "Drive Link", "Payment Status" >>

PhaseOptions == << "Profile Discovery", "Applications", "Initial Discovery" >>
StatusOptions == << "Not Started", "In Progress", "Completed", "Waiting on Client" >>
PriorityOptions == << "High", "Medium", "Low" >>
PaymentOptions == << "Pending", "Paid", "Overdue" >>

----------------------------------------------------------------------------
(* Conversions *)

\* date.strftime("%Y-%m-%d"): a calendar day (days since the epoch) as text.
DateStr(d) == ToString(d)

\* datetime.strftime("%Y-%m-%d %H:%M:%S"): day and second of the day as text.
Strftime(t) == ToString(t \div SecondsPerDay) \o " " \o ToString(t % SecondsPerDay)

\* date.today()
Today(t) == t \div SecondsPerDay

\* pd.to_datetime(a date): the instant at which that day starts.
ToDatetime(d) == d * SecondsPerDay

\* f"{n:04d}": decimal digits, left-padded with zeros to IdWidth characters.
RECURSIVE ZeroPad(_, _)
ZeroPad(s, w) == IF Len(s) >= w THEN s ELSE ZeroPad("0" \o s, w)

Format04d(n) == ZeroPad(ToString(n), IdWidth)

----------------------------------------------------------------------------
(* Derived fields *)

\* (pd.to_datetime(due_date) - pd.to_datetime(datetime.now())).days
DaysToDue(due, now) == (ToDatetime(due) - now) \div SecondsPerDay

\* The comparison made inclusive.
OverdueInclusive(status, due, now) ==
    IF status # "Completed" /\ ToDatetime(due) <= now THEN "Yes" ELSE "No"

\* "Yes" if status != "Completed" and pd.to_datetime(due_date) < now else "No"
Overdue(status, due, now) ==
    IF status # "Completed" /\ ToDatetime(due) < now THEN "Yes" ELSE "No"

\* The identifier taken from the row count itself.
NewRecordIdNoIncrement(n) == "REC_" \o Format04d(n)

\* f"REC_{len(df) + 1:04d}"
NewRecordId(n) == "REC_" \o Format04d(n + 1)

----------------------------------------------------------------------------
(* Inputs the user and the backend may supply *)

Clients == {"", "Ann"}                      \* client names stored initially
EditTasks == {"T1"}                         \* task names typed in the Edit form
AddTasks == {"", "T1"}                      \* task names typed in the Add form
Statuses == {"Not Started", "Completed"}    \* statuses picked in a form
DerivedStatuses == {"In Progress", "Completed"}
DueToday == {0}                             \* due date left at today
DueOffsets == {-1, 0, 1, 3}                 \* due date picked, in days from today
Lags == {0, TickShort}                      \* time the bulk row write takes
EditFails == {"none", "bulk", "stamp"}      \* backend call of update_row that raises
AddFails == {"none", "append"}              \* backend call of add_row that raises

----------------------------------------------------------------------------
(* The worksheet and the cache *)

\* sheet.get_all_records(): the rows below the header row, in storage order.
DataRows(sh) == SubSeq(sh, 2, Len(sh))

NoCache == [valid |-> FALSE, df |-> <<>>, at |-> 0]

\* @st.cache_data(ttl=60): the memoized value is returned while it is fresh.
CacheHit == cache.valid /\ clock - cache.at < TTL

\* load_data(): the DataFrame the script run works on.
LoadData == IF CacheHit THEN cache.df ELSE DataRows(sheet)

\* The cache entry after a load_data() that returned.
CacheLoaded ==
    IF CacheHit THEN cache
    ELSE [valid |-> TRUE, df |-> DataRows(sheet), at |-> clock]

\* Backend calls load_data() makes.
LoadCalls == IF CacheHit THEN <<>> ELSE << "get_all_records" >>

\* The header row forgotten in the offset.
StorageRowOffByOne(row_index) == row_index + 1

\* row_index + 2: the storage row of the DataFrame row at zero-based row_index.
StorageRow(row_index) == row_index + HeaderOffset

\* update_row: the bulk write of A..Q, then the stamp of column 15; a call that
\* raises leaves the worksheet as the calls before it left it.
UpdateRow(sh, row_index, updated_data, fail, stampTime) ==
    LET r == StorageRow(row_index)
        bulk == IF fail = "bulk" THEN sh ELSE [sh EXCEPT ![r] = updated_data]
    IN  IF fail \in {"bulk", "stamp"} THEN bulk
        ELSE [bulk EXCEPT ![r][StampColumn] = Strftime(stampTime)]

\* Backend calls update_row makes: the stamp is attempted only after the bulk
\* write returned.
UpdateCalls(fail) ==
    IF fail = "bulk" THEN << "update" >> ELSE << "update", "update_cell" >>

\* add_row: sheet.append_row(new_data.values.tolist())
AddRow(sh, new_data, fail) ==
    IF fail = "append" THEN sh ELSE Append(sh, new_data)

\* The except clauses without their st.stop().
StopsNever(fail) == FALSE

\* except ...: st.error(...); st.stop() -- a backend failure halts the script run.
Stops(fail) == fail # "none"

\* Messages a submit handler shows: st.error in the except clause, st.success
\* after the call when the run was not halted.
SubmitMsgs(fail) ==
    (IF fail # "none" THEN << "error" >> ELSE <<>>)
        \o (IF Stops(fail) THEN <<>> ELSE << "success" >>)

\* The handlers without their st.cache_data.clear().
CacheAfterSubmitKept(fail) == CacheLoaded

\* st.cache_data.clear() is the last statement of both handlers: it runs only
\* when the script run was not halted before.
CacheAfterSubmit(fail) == IF Stops(fail) THEN CacheLoaded ELSE NoCache

----------------------------------------------------------------------------
(* The Edit selection *)

\* client_df = df[df["Client Name"] == edit_client]; client_df.index
RECURSIVE ClientIndex(_, _, _)
ClientIndex(df, client, i) ==
    IF i > Len(df) THEN <<>>
    ELSE (IF df[i][ColClient] = client THEN << i - 1 >> ELSE <<>>)
             \o ClientIndex(df, client, i + 1)

\* f"{row['Task/Project']} (Status: {row['Status']})"
TaskLabel(row) == row[ColTask] \o " (Status: " \o row[ColStatus] \o ")"

TaskOptions(df, client) ==
    LET idx == ClientIndex(df, client, 1)
    IN  [k \in 1..Len(idx) |-> TaskLabel(df[idx[k] + 1])]

\* list.index(x): the first position holding x (one-based here).
ListIndex(list, x) ==
    CHOOSE k \in 1..Len(list) :
        list[k] = x /\ \A j \in 1..(k - 1) : list[j] # x

\* row_index = client_df.index[task_options.index(selected_task)]
RowIndex(df, client, selected_task) ==
    ClientIndex(df, client, 1)[ListIndex(TaskOptions(df, client), selected_task)]

\* sorted(df["Client Name"].unique().tolist())
ClientNames(df) == {df[i][ColClient] : i \in 1..Len(df)}

----------------------------------------------------------------------------
(* The records the handlers build *)

\* updated_data: identifier and untouched form fields from row_data, the
\* edited fields from the form, derived fields from the clock.
UpdatedData(row_data, task, status, due, now) ==
    << row_data[ColRecordID], row_data[ColClient], row_data[ColEmail],
       row_data[ColPhone], task, row_data[ColPhase], status,
       row_data[ColPriority], row_data[ColStart], DateStr(due),
       row_data[ColFollowUp], ToString(DaysToDue(due, now)),
       Overdue(status, due, now), row_data[ColNotes], Strftime(now),
       row_data[ColDrive], row_data[ColPayment] >>

\* new_data: identifier from the row count, blank text fields, first option of
\* the selectboxes left alone, today for the dates left alone.
NewData(n, client, task, status, due, now) ==
    << NewRecordId(n), client, "", "", task, PhaseOptions[1], status,
       PriorityOptions[1], DateStr(Today(now)), DateStr(due),
       DateStr(Today(now)), ToString(DaysToDue(due, now)),
       Overdue(status, due, now), "", Strftime(now), "", PaymentOptions[1] >>

\* A row as the worksheet holds it before this program touched it.
InitialRow(k, client) ==
    << "REC_" \o Format04d(k), client, "", "", "T1", PhaseOptions[1],
       StatusOptions[1], PriorityOptions[1], DateStr(0), DateStr(0),
       DateStr(0), ToString(0), "No", "", Strftime(0), "", PaymentOptions[1] >>

----------------------------------------------------------------------------
(* The record of a script run *)

NoReq ==
    [ op |-> "none", calls |-> <<>>, failed |-> "none",
      msgs |-> <<>>, halted |-> FALSE, dfLen |-> 0, option |-> 0,
      selected |-> -1, rowIndex |-> -1, client |-> "", task |-> "",
      status |-> "", due |-> 0, now |-> 0, stampAt |-> 0, days |-> 0,
      record |-> <<>> ]

Begin(op) ==
    [NoReq EXCEPT !.op = op, !.calls = LoadCalls,
                  !.dfLen = Len(LoadData), !.now = clock, !.stampAt = clock]

----------------------------------------------------------------------------
(* Steps *)

Step == steps < MaxSteps /\ steps' = steps + 1

Init ==
    /\ \E n \in 0..(MaxRows - 1) :
         \E cs \in [1..n -> Clients] :
            sheet = << Header >> \o [k \in 1..n |-> InitialRow(k, cs[k])]
    /\ cache = NoCache
    /\ clock = 0
    /\ req = NoReq
    /\ steps = 0

\* Time passes.
Tick ==
    /\ Step
    /\ \E d \in {TickShort, TickLong} :
         clock' = clock + d
    /\ UNCHANGED <<sheet, cache, req>>

\* load_data() has to read the worksheet and the read raises:
\* st.error(...); st.stop().
RunReadFail ==
    /\ Step
    /\ ~CacheHit
    /\ req' = [Begin("load") EXCEPT !.failed = "read", !.msgs = << "error" >>,
                                    !.halted = TRUE, !.dfLen = 0]
    /\ UNCHANGED <<sheet, cache, clock>>

\* The worksheet holds no data row: pd.DataFrame([]) has no column, and
\* df["Client Name"] raises KeyError before any form is drawn.
RunNoColumns ==
    /\ Step
    /\ Len(LoadData) = 0
    /\ req' = [Begin("view") EXCEPT !.msgs = << "exception" >>, !.halted = TRUE]
    /\ cache' = CacheLoaded
    /\ UNCHANGED <<sheet, clock>>

\* A script run in which no form is submitted.
RunView ==
    /\ Step
    /\ Len(LoadData) > 0
    /\ req' = Begin("view")
    /\ cache' = CacheLoaded
    /\ UNCHANGED <<sheet, clock>>

\* The Edit form is submitted: the user picked a client and the option-th
\* entry of that client's task selectbox.
\* The three datetime.now() of the handler are taken at one instant, clock;
\* update_row reads the time for its stamp after the bulk write, lag later.
\* Every backend call either takes effect and returns, or raises without effect.
EditSubmit(client, option, task, status, dueOff, lag, fail) ==
    LET df == LoadData
        idx == ClientIndex(df, client, 1)
        selected_task == TaskOptions(df, client)[option]
        row_index == RowIndex(df, client, selected_task)
        row_data == df[row_index + 1]
        due == Today(clock) + dueOff
        updated_data == UpdatedData(row_data, task, status, due, clock)
        stampAt == clock + lag
    IN  /\ Step
        /\ fail # "none" => lag = 0
        /\ Len(df) > 0
        /\ client \in ClientNames(df)
        /\ option \in 1..Len(idx)
        /\ sheet' = UpdateRow(sheet, row_index, updated_data, fail, stampAt)
        /\ cache' = CacheAfterSubmit(fail)
        /\ clock' = stampAt
        /\ req' = [Begin("edit") EXCEPT
                     !.calls = LoadCalls \o UpdateCalls(fail),
                     !.failed = fail, !.msgs = SubmitMsgs(fail),
                     !.halted = Stops(fail), !.option = option,
                     !.selected = idx[option], !.rowIndex = row_index,
                     !.client = client, !.task = task, !.status = status,
                     !.due = due, !.stampAt = stampAt,
                     !.days = DaysToDue(due, clock), !.record = updated_data]

\* The required-field check left out.
TaskMissingNever(new_task) == FALSE

\* if not new_task: the only required-field check of the Add handler.
TaskMissing(new_task) == new_task = ""

\* The Add form is submitted.
AddSubmit(client, task, status, dueOff, fail) ==
    LET df == LoadData
        due == Today(clock) + dueOff
        new_data == NewData(Len(df), client, task, status, due, clock)
    IN  /\ Step
        /\ Len(df) > 0
        /\ client \in ClientNames(df)
        /\ IF TaskMissing(task)
           THEN \* st.error("Task/Project is required.")
                /\ fail = "none"
                /\ req' = [Begin("add") EXCEPT !.msgs = << "error" >>,
                             !.client = client, !.task = task,
                             !.status = status, !.due = due]
                /\ cache' = CacheLoaded
                /\ UNCHANGED <<sheet, clock>>
           ELSE /\ Len(sheet) - 1 < MaxRows
                /\ sheet' = AddRow(sheet, new_data, fail)
                /\ cache' = CacheAfterSubmit(fail)
                /\ req' = [Begin("add") EXCEPT
                             !.calls = LoadCalls \o << "append_row" >>,
                             !.failed = fail, !.msgs = SubmitMsgs(fail),
                             !.halted = Stops(fail), !.client = client,
                             !.task = task, !.status = status, !.due = due,
                             !.days = DaysToDue(due, clock),
                             !.record = new_data]
                /\ UNCHANGED clock

Edit ==
    \E client \in Clients, option \in 1..MaxRows, task \in EditTasks,
       status \in Statuses, dueOff \in DueToday, lag \in Lags,
       fail \in EditFails :
        EditSubmit(client, option, task, status, dueOff, lag, fail)

Add ==
    \E client \in Clients, task \in AddTasks, status \in {StatusOptions[1]},
       dueOff \in DueToday, fail \in AddFails :
        AddSubmit(client, task, status, dueOff, fail)

Next ==
    \/ Tick
    \/ RunReadFail
    \/ RunNoColumns
    \/ RunView
    \/ Edit
    \/ Add

Spec == Init /\ [][Next]_vars

----------------------------------------------------------------------------
(* The same handlers, driven over due dates and times of day from a         *)
(* one-row worksheet, with a backend that does not fail.                    *)

InitDerived ==
    /\ sheet = << Header, InitialRow(1, "Ann") >>
    /\ cache = NoCache
    /\ clock = 0
    /\ req = NoReq
    /\ steps = 0

EditDerived ==
    \E option \in 1..MaxRows, status \in DerivedStatuses, dueOff \in DueOffsets :
        EditSubmit("Ann", option, "T1", status, dueOff, 0, "none")

AddDerived ==
    \E status \in DerivedStatuses, dueOff \in DueOffsets :
        AddSubmit("Ann", "T1", status, dueOff, "none")

NextDerived ==
    \/ Tick
    \/ EditDerived
    \/ AddDerived

SpecDerived == InitDerived /\ [][NextDerived]_vars

----------------------------------------------------------------------------
(* Properties *)

\* The backend calls of the last script run that returned.
Returned(r) ==
    IF r.failed = "none" THEN r.calls ELSE SubSeq(r.calls, 1, Len(r.calls) - 1)

Called(r, name) == \E i \in 1..Len(r.calls) : r.calls[i] = name

\* The last script run wrote to the worksheet.
Mutated(r) ==
    \E i \in 1..Len(Returned(r)) :
        Returned(r)[i] \in {"update", "update_cell", "append_row"}

\* The last script run was a submit whose backend writes all returned.
Written(r) == r.op \in {"edit", "add"} /\ r.failed = "none" /\ Mutated(r)

\* The storage row the last submit wrote: the edited row, or the appended one.
WrittenRow ==
    IF req.op = "edit" THEN sheet[req.rowIndex + 2] ELSE sheet[Len(sheet)]

\* C1: after a submit that wrote to the worksheet (update_row or add_row), the
\* cache of load_data holds no entry, so the next load_data reads the
\* worksheet again.
C1_MutationInvalidatesCache ==
    (req.op \in {"edit", "add"} /\ Mutated(req)) => ~cache.valid

\* C2: an Add submit with an empty task name shows an error, calls no
\* append_row and leaves the worksheet as it was.
C2_EmptyTaskRejected ==
    [][ (req'.op = "add" /\ req'.task = "")
          => /\ sheet' = sheet
             /\ ~Called(req', "append_row")
             /\ req'.msgs = << "error" >> ]_vars

C2_Witness ==
    /\ req.op = "add" /\ req.task = "" /\ req.client = "Ann"
    /\ req.msgs = << "error" >>
    /\ Len(sheet) = 3

\* C3: an Add submit whose client name is empty shows an error and appends no
\* row.
C3_EmptyClientRejected ==
    (req.op = "add" /\ req.client = "")
        => (~Called(req, "append_row") /\ req.msgs = << "error" >>)

\* C4: update_row(row_index, record) leaves the number of rows, the header and
\* every row other than storage row row_index + 2 as they were; when both of
\* its calls return, that row holds the 17 values of record, except that
\* column 15 holds the time of the stamp call.
C4_UpdateRewritesOneRow ==
    [][ (req'.op = "edit")
          => /\ Len(sheet') = Len(sheet)
             /\ \A r \in 1..Len(sheet) :
                    r # req'.rowIndex + 2 => sheet'[r] = sheet[r]
             /\ (req'.failed = "none")
                  => \A c \in 1..NumCols :
                        sheet'[req'.rowIndex + 2][c] =
                            IF c = 15 THEN Strftime(req'.stampAt) ELSE req'.record[c]
    ]_vars

C4_Witness ==
    /\ req.op = "edit" /\ req.failed = "none"
    /\ req.rowIndex = 1 /\ Len(sheet) = 4
    /\ req.stampAt > req.now
    /\ sheet[3][ColLastUpdated] = Strftime(req.stampAt)
    /\ sheet[3][ColStatus] = "Completed"
    /\ sheet[2][ColStatus] = "Not Started"

\* C5: no two data rows of the worksheet hold the same Record ID.
C5_RecordIdsUnique ==
    \A i, j \in 2..Len(sheet) :
        i # j => sheet[i][ColRecordID] # sheet[j][ColRecordID]

C5_Witness ==
    /\ req.op = "add" /\ Written(req)
    /\ Len(sheet) = MaxRows + 1
    /\ \E i \in 2..Len(sheet) : sheet[i][ColStatus] = "Completed"

\* The identifier the N-th record is to carry: REC_ and N in four digits.
ExpectedId(N) ==
    "REC_" \o (IF N < 10 THEN "000" ELSE IF N < 100 THEN "00"
               ELSE IF N < 1000 THEN "0" ELSE "") \o ToString(N)

\* C6: the record appended as the N-th data row carries the identifier REC_
\* followed by N in four digits.
C6_NthRecordId ==
    (req.op = "add" /\ Written(req))
        => sheet[Len(sheet)][ColRecordID] = ExpectedId(Len(sheet) - 1)

C6_Witness ==
    /\ req.op = "add" /\ Written(req)
    /\ Len(sheet) = 4
    /\ sheet[4][ColRecordID] = "REC_0003"

\* The start of the due day lies strictly before the instant now.
DueBefore(due, now) ==
    \/ due < now \div SecondsPerDay
    \/ (due = now \div SecondsPerDay /\ now % SecondsPerDay > 0)

\* C7: the Overdue? cell written by an Edit or an Add is "Yes" when the status
\* is not Completed and the due date (the start of that day) is strictly
\* before the time of the write, and "No" otherwise.
C7_OverdueFlag ==
    Written(req)
        => WrittenRow[ColOverdue] =
              IF req.status # "Completed" /\ DueBefore(req.due, req.now)
              THEN "Yes" ELSE "No"

C7_Witness ==
    /\ Written(req)
    /\ req.status = "In Progress"
    /\ req.due = req.now \div SecondsPerDay - 1
    /\ WrittenRow[ColOverdue] = "Yes"

\* C8: the Days to Due written by an Edit or an Add is negative exactly when
\* the due date is before today, 0 when it is today, positive when it is after
\* today, and 3 when it is three days after today.
C8_DaysToDueSign ==
    Written(req)
        => LET today == req.now \div SecondsPerDay
           IN  /\ WrittenRow[ColDays] = ToString(req.days)
               /\ (req.days < 0) <=> (req.due < today)
               /\ (req.due = today) => (req.days = 0)
               /\ (req.due > today) => (req.days > 0)
               /\ (req.due = today + 3) => (req.days = 3)

\* C9: a script run in which a backend call failed shows an error and no
\* success message, is halted, and made every backend call at most once, the
\* failed call last.
C9_FailureHalts ==
    (req.failed # "none")
        => /\ req.msgs = << "error" >>
           /\ req.halted
           /\ \A i, j \in 1..Len(req.calls) :
                  req.calls[i] = req.calls[j] => i = j
           /\ req.calls[Len(req.calls)] =
                  CASE req.failed = "read" -> "get_all_records"
                    [] req.failed = "bulk" -> "update"
                    [] req.failed = "stamp" -> "update_cell"
                    [] req.failed = "append" -> "append_row"

C9_Witness ==
    /\ req.op = "edit" /\ req.failed = "stamp"
    /\ req.halted /\ req.msgs = << "error" >>
    /\ req.calls = << "get_all_records", "update", "update_cell" >>

\* C10: the row passed to update_row is the row of the task the user picked in
\* the task selectbox.
C10_SelectedRowUpdated ==
    (req.op = "edit") => (req.rowIndex = req.selected)

====
